---------------------------- MODULE Spec2Model ----------------------------
(***************************************************************************)
(* QuickADB: a model of the worker threads, the GSI flasher's device       *)
(* polling, the partition manager, the file explorer's command handlers,   *)
(* the UI-thread handlers that wait on workers, the terminal window's      *)
(* shell process, the saved theme and the boot animation preview.          *)
(*                                                                         *)
(* Each window object is one record-valued variable whose fields are the   *)
(* attributes of the Python object; each method is an operator from the    *)
(* object's state (and the inputs the environment chooses: subprocess      *)
(* output, dialog replies) to its next state.  Modal dialogs are answered  *)
(* inside the handler that opens them.                                     *)
(***************************************************************************)
EXTENDS Integers, Sequences, FiniteSets, TLC

VARIABLES gsi, wk, pm, fe, ui, term, tm, prev

vars == <<gsi, wk, pm, fe, ui, term, tm, prev>>

(***************************************************************************)
(* Bounds of the model.                                                    *)
(***************************************************************************)
\* most commands the GSI flasher has in flight at once
MaxInFlight == 2
\* most lines of an `adb devices` output
MaxAdbLines == 2
\* most lines of a `fastboot devices` output
MaxFbLines == 1
\* most fastboot checks counted since the last user-started check
MaxChecks == 6
\* partitions of the device
MaxParts == 2
\* most lines a CommandRunner reads from its process
MaxCmdLines == 2
\* most workers constructed and not yet dropped at once
MaxActive == 1
\* most workers the app manager tracks at once
MaxAmWorkers == 2
\* most shell processes a terminal window spawns
MaxShells == 3
\* most pending single-shot timers of a terminal window
MaxTimers == 2
\* most extraction threads of the boot animation preview at once
MaxPreviews == 2
\* most temporary frame folders made
MaxDirs == 3

Yes == "Yes"
No == "No"
Replies == {Yes, No}

RECURSIVE SeqsUpTo(_, _)
SeqsUpTo(S, n) ==
    IF n = 0 THEN {<<>>}
    ELSE LET shorter == SeqsUpTo(S, n - 1)
         IN shorter \cup {Append(q, x) : q \in {r \in shorter : Len(r) = n - 1}, x \in S}

(***************************************************************************)
(* Text of command output.  A line is one of a few shapes; the parsers of  *)
(* the source only look at whether a line is blank after strip(), how many *)
(* whitespace-separated parts it has, what its second part is and whether  *)
(* it contains a given substring.                                          *)
(***************************************************************************)
\* "List of devices attached"
LineHeader == "header"
\* "" or whitespace only
LineBlank == "blank"
\* "<serial>\tdevice"
LineDevice == "dev"
\* "<serial>\toffline"
LineOffline == "offline"
\* "<serial>\tfastboot"
LineFastboot == "fb"
\* "< waiting for any device >"
LineWaiting == "waiting"
\* one word, e.g. an error token
LineOneWord == "one"

\* ln.strip() is empty
StripEmpty(ln) == ln = LineBlank

\* len(ln.split())
NumParts(ln) ==
    CASE ln = LineHeader -> 4
      [] ln = LineBlank -> 0
      [] ln = LineDevice -> 2
      [] ln = LineOffline -> 2
      [] ln = LineFastboot -> 2
      [] ln = LineWaiting -> 6
      [] OTHER -> 1

\* ln.split()[1].lower(), for a line of at least two parts
SecondPart(ln) ==
    CASE ln = LineHeader -> "of"
      [] ln = LineDevice -> "device"
      [] ln = LineOffline -> "offline"
      [] ln = LineFastboot -> "fastboot"
      [] ln = LineWaiting -> "waiting"
      [] OTHER -> ""

\* "waiting for" in ln.lower()
HasWaitingFor(ln) == ln = LineWaiting

\* "waiting" in ln.lower()
HasWaiting(ln) == ln = LineWaiting

\* output.splitlines()[1:]
SkipHeader(lines) == IF Len(lines) = 0 THEN <<>> ELSE Tail(lines)

\* what `adb devices` can print: nothing (adb could not be launched), or the
\* header followed by device lines and blank lines
AdbLineKinds == {LineBlank, LineDevice, LineOffline}
AdbOutputs ==
    {<<>>} \cup {<<LineHeader>> \o q : q \in SeqsUpTo(AdbLineKinds, MaxAdbLines - 1)}

\* what `fastboot devices` can print
FbLineKinds == {LineBlank, LineFastboot, LineWaiting, LineOneWord}
FbOutputs == SeqsUpTo(FbLineKinds, MaxFbLines)

(***************************************************************************)
(* GSI flasher (src/modules/gsiflasher.py)                                 *)
(***************************************************************************)
RetryMax == 5

CmdAdbDevices == "adb devices"
CmdAdbReboot == "adb reboot fastboot"
CmdFastbootDevices == "fastboot devices"
CmdGetvarAll == "fastboot getvar all"
CmdRebootFastbootd == "fastboot reboot fastboot"
CmdFastbootdDevices == "fastboot devices (fastbootd)"
CmdFlash == "fastboot flash system"
CmdKinds == {CmdAdbDevices, CmdAdbReboot, CmdFastbootDevices, CmdGetvarAll,
             CmdRebootFastbootd, CmdFastbootdDevices, CmdFlash}

NoImage == "None"
NotCounting == -1
Images == {"gsi.img"}

\* GSIFlasherUI after __init__: no image, flags false, Flash button disabled,
\* usb_timer created but not started, check_device_state scheduled once.
\* retry_count does not exist yet; check_device_state treats a missing
\* attribute like a count <= 0, so it is 0 here.
GsiInit ==
    [ gsi_image_path |-> NoImage,
      system_partition_available |-> FALSE,
      fastbootd_confirmed |-> FALSE,
      adb_prompt_shown |-> FALSE,
      flash_gsi_btn |-> FALSE,
      usb_timer |-> FALSE,
      retry_count |-> 0,
      cmds |-> [k \in CmdKinds |-> 0],
      initial_check |-> TRUE,
      ask_retry |-> FALSE,
      \* an observation, not an attribute of the window: the fastboot checks
      \* issued since the user last started a check, NotCounting once a
      \* fastboot device has been detected
      fb_checks |-> 0 ]

\* run_command_async: one more command of this kind in flight
run_command_async(s, k) == [s EXCEPT !.cmds[k] = @ + 1]

\* the finished signal of a command of this kind has been delivered
Finished(s, k) == [s EXCEPT !.cmds[k] = @ - 1]

check_device_state(s) ==
    LET s1 == IF s.retry_count <= 0 THEN [s EXCEPT !.retry_count = RetryMax] ELSE s
    IN run_command_async(s1, CmdAdbDevices)

on_recheck_devices_clicked(s) ==
    check_device_state([s EXCEPT !.adb_prompt_shown = FALSE,
                                 !.fb_checks = IF @ = NotCounting THEN @ ELSE 0])

do_fastboot_check(s) ==
    IF s.retry_count <= 0
    THEN [s EXCEPT !.usb_timer = FALSE]
    ELSE LET s1 == run_command_async(s, CmdFastbootDevices)
             r == s.retry_count - 1
         IN [s1 EXCEPT !.retry_count = r,
                       !.fb_checks = IF @ # NotCounting /\ @ < MaxChecks
                                     THEN @ + 1 ELSE @,
                       !.usb_timer = IF r < 0 THEN FALSE ELSE @]

start_fastboot_check(s) == do_fastboot_check([s EXCEPT !.usb_timer = TRUE])

\* One pass of the loop body of _adb_devices_callback for a line, with the
\* reply the user gives if the reboot question is asked.  acc.n is the
\* number of devices collected so far.
AdbLineStep(acc, ln, reply) ==
    IF StripEmpty(ln) THEN acc
    ELSE LET n == IF NumParts(ln) >= 2 /\ SecondPart(ln) = "device"
                  THEN acc.n + 1 ELSE acc.n
             s == acc.s
         IN IF n > 0 /\ ~s.adb_prompt_shown
            THEN LET s1 == [s EXCEPT !.adb_prompt_shown = TRUE]
                 IN IF reply = Yes
                    THEN [s |-> run_command_async(s1, CmdAdbReboot), n |-> n]
                    ELSE [s |-> start_fastboot_check(s1), n |-> n]
            ELSE [s |-> start_fastboot_check(s), n |-> n]

RECURSIVE AdbLoop(_, _, _)
AdbLoop(acc, lines, reply) ==
    IF Len(lines) = 0 THEN acc
    ELSE AdbLoop(AdbLineStep(acc, Head(lines), reply), Tail(lines), reply)

adb_devices_callback(s, output, reply) ==
    AdbLoop([s |-> s, n |-> 0], SkipHeader(output), reply).s

fetch_fastboot_info(s) == run_command_async(s, CmdGetvarAll)

\* the serials _fastboot_devices_callback collects
FbDeviceLines(output) ==
    {i \in 1..Len(output) :
        /\ ~StripEmpty(output[i])
        /\ ~HasWaitingFor(output[i])
        /\ NumParts(output[i]) >= 2
        /\ SecondPart(output[i]) \in {"fastboot", "device", "recovery", "bootloader"}}

\* (output or "").strip() is not empty
OutText(output) == \E i \in 1..Len(output) : ~StripEmpty(output[i])

\* _probe_pyusb_and_prompt_if_needed; android_like: pyusb is present and
\* lists a USB device that looks like Android
probe_pyusb_and_prompt_if_needed(s, android_like) ==
    IF android_like THEN [s EXCEPT !.usb_timer = FALSE] ELSE s

fastboot_devices_callback(s, output, android_like) ==
    IF OutText(output) /\ FbDeviceLines(output) # {}
    THEN fetch_fastboot_info([s EXCEPT !.usb_timer = FALSE, !.fb_checks = NotCounting])
    ELSE LET s1 == probe_pyusb_and_prompt_if_needed(s, android_like)
         IN IF s1.retry_count = 0 THEN [s1 EXCEPT !.usb_timer = FALSE] ELSE s1

\* `fastboot getvar all` output, as the set of the substrings parse_partition_info
\* looks for that the lower-cased output contains
Needles == {"partition-size:super", "(bootloader) super", "super", "partition",
            "partition-size:system", "(bootloader) system", "system"}
GetvarOutputs ==
    {{},
     {"partition"},
     {"partition-size:super", "super", "partition"},
     {"(bootloader) super", "super"},
     {"partition-size:system", "system", "partition"},
     {"(bootloader) system", "system"},
     {"system"},
     {"system", "partition"},
     {"partition-size:super", "super", "partition-size:system", "system", "partition"}}

super_found(out) ==
    \/ "partition-size:super" \in out
    \/ "(bootloader) super" \in out
    \/ ("super" \in out /\ "partition" \in out)

system_found(out) ==
    \/ "partition-size:system" \in out
    \/ "(bootloader) system" \in out
    \/ ("system" \in out /\ "partition" \in out)

ask_for_fastbootd_reboot(s, reply, retry) ==
    IF reply = Yes
    THEN [run_command_async(s, CmdRebootFastbootd) EXCEPT !.usb_timer = TRUE]
    ELSE IF ~retry THEN [s EXCEPT !.ask_retry = TRUE] ELSE s

parse_partition_info(s, out, reply) ==
    IF system_found(out)
    THEN [s EXCEPT !.system_partition_available = TRUE,
                   !.flash_gsi_btn = IF s.gsi_image_path # NoImage THEN TRUE ELSE @]
    ELSE IF super_found(out) THEN ask_for_fastbootd_reboot(s, reply, FALSE)
    ELSE s

verify_fastbootd_mode(s, reply) ==
    LET s1 == [s EXCEPT !.usb_timer = FALSE]
    IN IF reply = Yes
       THEN [run_command_async(s1, CmdFastbootdDevices) EXCEPT
                !.fastbootd_confirmed = TRUE,
                !.flash_gsi_btn = IF s.gsi_image_path # NoImage THEN TRUE ELSE @]
       ELSE s1

check_fastbootd_response(s, output) ==
    IF ~OutText(output) \/ (\E i \in 1..Len(output) : HasWaiting(output[i]))
    THEN s
    ELSE fetch_fastboot_info(s)

\* load_gsi_image with the check of the two flags left out
load_gsi_image_always_enables(s, chosen) ==
    IF chosen = NoImage THEN s
    ELSE [s EXCEPT !.gsi_image_path = chosen, !.flash_gsi_btn = TRUE]

\* chosen: the file picked in the dialog, NoImage when the dialog is cancelled
\* or returns no file
load_gsi_image(s, chosen) ==
    IF chosen = NoImage THEN s
    ELSE [s EXCEPT !.gsi_image_path = chosen,
                   !.flash_gsi_btn =
                       IF s.system_partition_available \/ s.fastbootd_confirmed
                       THEN TRUE ELSE @]

flash_gsi_image(s, answer) ==
    IF s.gsi_image_path = NoImage THEN s
    ELSE IF answer # Yes THEN s
    ELSE [run_command_async(s, CmdFlash) EXCEPT !.flash_gsi_btn = FALSE]

\* on_finished inside flash_gsi_image
flash_on_finished(s) == [s EXCEPT !.flash_gsi_btn = TRUE]

RECURSIVE SumOver(_, _)
SumOver(f, S) ==
    IF S = {} THEN 0
    ELSE LET x == CHOOSE y \in S : TRUE IN f[x] + SumOver(f, S \ {x})

\* the commands in flight stay within the bound
GsiBounded(s) == SumOver(s.cmds, CmdKinds) <= MaxInFlight

GsiStep(s) == GsiBounded(s) /\ gsi' = s /\ UNCHANGED <<wk, pm, fe, ui, term, tm, prev>>

\* QTimer.singleShot(150, self.check_device_state) of __init__
GsiInitialCheck ==
    /\ gsi.initial_check
    /\ GsiStep(check_device_state([gsi EXCEPT !.initial_check = FALSE,
                                               !.fb_checks = 0]))

GsiRecheckClicked ==
    \E s \in {on_recheck_devices_clicked(gsi)} : GsiStep(s)

\* usb_timer.timeout is connected to check_device_state
GsiUsbTimerTick == gsi.usb_timer /\ GsiStep(check_device_state(gsi))

GsiAdbDevicesFinished ==
    /\ gsi.cmds[CmdAdbDevices] > 0
    /\ \E output \in AdbOutputs, reply \in Replies :
         GsiStep(adb_devices_callback(Finished(gsi, CmdAdbDevices), output, reply))

\* lambda o: self._start_fastboot_check()
GsiAdbRebootFinished ==
    /\ gsi.cmds[CmdAdbReboot] > 0
    /\ GsiStep(start_fastboot_check(Finished(gsi, CmdAdbReboot)))

GsiFastbootDevicesFinished ==
    /\ gsi.cmds[CmdFastbootDevices] > 0
    /\ \E output \in FbOutputs, android_like \in BOOLEAN :
         GsiStep(fastboot_devices_callback(Finished(gsi, CmdFastbootDevices),
                                           output, android_like))

GsiGetvarFinished ==
    /\ gsi.cmds[CmdGetvarAll] > 0
    /\ \E out \in GetvarOutputs, reply \in Replies :
         GsiStep(parse_partition_info(Finished(gsi, CmdGetvarAll), out, reply))

\* QTimer.singleShot(100, lambda: self.ask_for_fastbootd_reboot(retry=True))
GsiAskRetry ==
    /\ gsi.ask_retry
    /\ \E reply \in Replies :
         GsiStep(ask_for_fastbootd_reboot([gsi EXCEPT !.ask_retry = FALSE], reply, TRUE))

\* lambda o: self.verify_fastbootd_mode()
GsiRebootFastbootdFinished ==
    /\ gsi.cmds[CmdRebootFastbootd] > 0
    /\ \E reply \in Replies :
         GsiStep(verify_fastbootd_mode(Finished(gsi, CmdRebootFastbootd), reply))

GsiFastbootdDevicesFinished ==
    /\ gsi.cmds[CmdFastbootdDevices] > 0
    /\ \E output \in FbOutputs :
         GsiStep(check_fastbootd_response(Finished(gsi, CmdFastbootdDevices), output))

GsiLoadImageClicked ==
    \E chosen \in Images \cup {NoImage} :
        \E s \in {load_gsi_image(gsi, chosen)} : GsiStep(s)

\* the Flash GSI Image button can be clicked only while it is enabled
GsiFlashClicked ==
    /\ gsi.flash_gsi_btn
    /\ \E answer \in Replies : GsiStep(flash_gsi_image(gsi, answer))

GsiFlashFinished ==
    /\ gsi.cmds[CmdFlash] > 0
    /\ GsiStep(flash_on_finished(Finished(gsi, CmdFlash)))

GsiNext ==
    \/ GsiInitialCheck
    \/ GsiRecheckClicked
    \/ GsiUsbTimerTick
    \/ GsiAdbDevicesFinished
    \/ GsiAdbRebootFinished
    \/ GsiFastbootDevicesFinished
    \/ GsiGetvarFinished
    \/ GsiAskRetry
    \/ GsiRebootFastbootdFinished
    \/ GsiFastbootdDevicesFinished
    \/ GsiLoadImageClicked
    \/ GsiFlashClicked
    \/ GsiFlashFinished

(***************************************************************************)
(* Worker threads.  A worker is a record: pc is its position in run(), i a *)
(* loop index, count a counter or flag of run(), input what the worker was *)
(* constructed with, data what it has collected, sigs the signals it has   *)
(* emitted to the UI thread in this run (log and progress lines left out). *)
(* Each subprocess call is one step whose outcome the environment chooses: *)
(* exit code 0, a non-zero exit code, an exception raised by the call, or  *)
(* a child process that never exits.                                       *)
(***************************************************************************)
ADBThread == "ADBThread"
CommandRunner == "CommandRunner"
PartitionLoadWorker == "PartitionLoadWorker"
PartitionPullWorker == "PartitionPullWorker"
PartitionFlashWorker == "PartitionFlashWorker"
DeviceInfoWorker == "DeviceInfoWorker"
Workers == {ADBThread, CommandRunner, PartitionLoadWorker, PartitionPullWorker,
            PartitionFlashWorker, DeviceInfoWorker}

Ok == "ok"
NonZero == "nonzero"
Raise == "raise"
Hang == "hang"
Outcomes == {Ok, NonZero, Raise, Hang}

\* partitions of the device, numbered in the order of their names
Parts == 1..MaxParts
\* a line of `ls -l` that is not a link: the "total 0" line, or a line the
\* loop skips (fewer than nine parts, or no "lrwxrwxrwx" and "->")
Junk == 0

\* output lines of shell commands the file explorer runs
\* a line of `ls -la` with at least eight parts: a directory entry
LineEntry == "entry"
\* "total 8"
LineTotal == "total"
\* "ls: /x: Permission denied"
LineLsErr == "lserr"
\* str(e) of the exception check_output raised, e.g.
\* "Command '[...]' returned non-zero exit status 1."
LineExcMsg == "excmsg"
\* "dir"
LineDir == "dir"
StrE == <<LineExcMsg>>

\* what a shell command run by an ADBThread can print
ShellOutputs == {<<>>, <<LineBlank>>, <<LineTotal, LineEntry>>, <<LineLsErr>>,
                 <<LineTotal, LineEntry, LineLsErr>>, <<LineDir>>}

\* what `ls -l /dev/block/by-name` can print: nothing, or the "total" line
\* followed by the links in the order of their names, and lines of another
\* shape
RECURSIVE Ascending(_)
Ascending(q) ==
    \/ Len(q) <= 1
    \/ /\ (Head(q) = Junk \/ Head(Tail(q)) = Junk \/ Head(q) < Head(Tail(q)))
       /\ (Head(q) = Junk \/ \A j \in 2..Len(q) : q[j] = Junk \/ Head(q) < q[j])
       /\ Ascending(Tail(q))
LsOutputs ==
    {<<>>} \cup {<<Junk>> \o q : q \in {r \in SeqsUpTo(Parts \cup {Junk}, MaxParts) :
                                           Ascending(r)}}

WorkerIdle == [pc |-> "idle", i |-> 0, count |-> 0, input |-> <<>>, data |-> <<>>,
               sigs |-> <<>>]

Emit(r, name, args) == [r EXCEPT !.sigs = Append(@, [name |-> name, args |-> args])]
Done(r) == [r EXCEPT !.pc = "done"]
Hung(r) == [r EXCEPT !.pc = "hung"]

\* ---- ADBThread.run (src/modules/fileexplorer.py) ----
\* the arguments of command_finished for an outcome of check_output that
\* returns: (output, is_error)
ADBThread_result(outcome, out) ==
    CASE outcome = Ok -> <<out, FALSE>>
      [] outcome = NonZero -> <<IF out # <<>> THEN out ELSE StrE, TRUE>>
      [] OTHER -> <<StrE, TRUE>>

ADBThread_run(r, outcome, out) ==
    IF outcome = Hang THEN Hung(r)
    ELSE Done(Emit(r, "command_finished", ADBThread_result(outcome, out)))

\* ---- CommandRunner.run (src/modules/gsiflasher.py) ----
\* an except branch that logs and emits nothing
CommandRunner_except_silent(r) == Done(r)

\* the except branch: log, then finished("")
CommandRunner_except(r) == Done(Emit(r, "finished", <<0>>))

CommandRunner_popen(r, outcome) ==
    IF outcome = Raise THEN CommandRunner_except(r) ELSE [r EXCEPT !.pc = "read"]

\* one turn of `for line in proc.stdout`: a line, the end of the stream, an
\* exception while reading, or a stream that is never closed
CommandRunner_read(r, event) ==
    CASE event = "line" -> [r EXCEPT !.count = @ + 1]
      [] event = "eof" -> [r EXCEPT !.pc = "wait"]
      [] event = Raise -> CommandRunner_except(r)
      [] OTHER -> Hung(r)

\* rc = proc.wait(); finished(output): the exit code is not looked at
CommandRunner_wait(r, outcome) ==
    IF outcome = Hang THEN Hung(r) ELSE Done(Emit(r, "finished", <<r.count>>))

\* ---- PartitionLoadWorker.run (src/modules/partitionmanager.py) ----
PartitionLoadWorker_ls(r, outcome, lines) ==
    CASE outcome = Hang -> Hung(r)
      [] outcome = NonZero -> Done(Emit(r, "error_occurred", <<"Failed to load partitions">>))
      [] outcome = Raise -> Done(Emit(r, "error_occurred", <<"Error loading partitions">>))
      [] OTHER ->
            IF Len(lines) <= 1
            THEN Done(Emit(r, "error_occurred", <<"No partitions found">>))
            ELSE [r EXCEPT !.pc = "sizes", !.input = Tail(lines), !.i = 1, !.data = <<>>]

\* one turn of the loop over the lines: a line of another shape is skipped;
\* for a link get_partition_size runs blockdev, whose failures it turns into
\* size 0, and the partition is appended
PartitionLoadWorker_line(r, outcome) ==
    IF r.input[r.i] = Junk THEN [r EXCEPT !.i = @ + 1]
    ELSE IF outcome = Hang THEN Hung(r)
    ELSE [r EXCEPT !.i = @ + 1, !.data = Append(@, r.input[r.i])]

PartitionLoadWorker_end(r) ==
    Done(Emit(Emit(r, "partitions_loaded", <<r.data>>), "finished_loading", <<>>))

\* ---- PartitionPullWorker.run ----
PartitionPullWorker_except(r) ==
    Done(Emit(r, "finished_with_status", <<FALSE, 0, Len(r.input)>>))

\* a failed dd or pull: count the failure and go on with the next partition
PartitionPullWorker_failed(r) == [r EXCEPT !.i = @ + 1, !.pc = "dd"]

PartitionPullWorker_dd(r, outcome) ==
    CASE outcome = Hang -> Hung(r)
      [] outcome = Raise -> PartitionPullWorker_except(r)
      [] outcome = NonZero -> PartitionPullWorker_failed(r)
      [] OTHER -> [r EXCEPT !.pc = "pull"]

PartitionPullWorker_pull(r, outcome) ==
    CASE outcome = Hang -> Hung(r)
      [] outcome = Raise -> PartitionPullWorker_except(r)
      [] outcome = NonZero -> PartitionPullWorker_failed(r)
      [] OTHER -> [r EXCEPT !.pc = "rm"]

\* a failed cleanup is logged and the partition still counts as pulled
PartitionPullWorker_rm(r, outcome) ==
    CASE outcome = Hang -> Hung(r)
      [] outcome = Raise -> PartitionPullWorker_except(r)
      [] OTHER -> [r EXCEPT !.count = @ + 1, !.i = @ + 1, !.pc = "dd"]

PartitionPullWorker_end(r) ==
    Done(Emit(r, "finished_with_status", <<r.count > 0, r.count, Len(r.input)>>))

\* ---- PartitionFlashWorker.run ----
\* data: the commands run against the device; count: partition_success
PartitionFlashWorker_except(r) == Done(Emit(r, "finished_with_status", <<FALSE>>))

PartitionFlashWorker_push(r, outcome) ==
    LET r1 == [r EXCEPT !.data = Append(@, "push")]
    IN CASE outcome = Hang -> Hung(r1)
         [] outcome = Raise -> PartitionFlashWorker_except(r1)
         [] outcome = NonZero -> Done(Emit(r1, "finished_with_status", <<FALSE>>))
         [] OTHER -> [r1 EXCEPT !.pc = "dd"]

PartitionFlashWorker_dd(r, outcome) ==
    LET r1 == [r EXCEPT !.data = Append(@, "dd")]
    IN CASE outcome = Hang -> Hung(r1)
         [] outcome = Raise -> PartitionFlashWorker_except(r1)
         [] outcome = NonZero -> [r1 EXCEPT !.count = 0, !.pc = "rm"]
         [] OTHER -> [r1 EXCEPT !.count = 1, !.pc = "rm"]

PartitionFlashWorker_rm(r, outcome) ==
    CASE outcome = Hang -> Hung(r)
      [] outcome = Raise -> PartitionFlashWorker_except(r)
      [] OTHER -> Done(Emit(r, "finished_with_status", <<r.count = 1>>))

\* ---- DeviceInfoWorker.run (src/main/adbfunc.py) ----
NumInfoCommands == 13

\* one command of the loop: every outcome, TimeoutExpired included, appends
\* a line to results and the loop goes on; the call has timeout=10
DeviceInfoWorker_command(r, outcome) ==
    IF outcome = Hang THEN Hung(r) ELSE [r EXCEPT !.i = @ + 1]

\* subprocess.TimeoutExpired after 10 seconds
DeviceInfoWorker_timeout(r) == [r EXCEPT !.i = @ + 1, !.pc = "command", !.count = 1]

DeviceInfoWorker_end(r) == Done(Emit(r, "info_ready", <<r.count>>))

\* ---- the steps of run(), as actions ----
WkStep(w, r) == wk' = [wk EXCEPT ![w] = r] /\ UNCHANGED <<gsi, pm, fe, ui, term, tm, prev>>

ADBThreadRun ==
    /\ wk[ADBThread].pc = "check_output"
    /\ \E outcome \in Outcomes, out \in ShellOutputs :
         WkStep(ADBThread, ADBThread_run(wk[ADBThread], outcome, out))

CommandRunnerPopen ==
    /\ wk[CommandRunner].pc = "popen"
    /\ \E outcome \in {Ok, Raise} :
         WkStep(CommandRunner, CommandRunner_popen(wk[CommandRunner], outcome))

CommandRunnerRead ==
    /\ wk[CommandRunner].pc = "read"
    /\ \E event \in {"line", "eof", Raise, Hang} :
         /\ event = "line" => wk[CommandRunner].count < MaxCmdLines
         /\ WkStep(CommandRunner, CommandRunner_read(wk[CommandRunner], event))

CommandRunnerWait ==
    /\ wk[CommandRunner].pc = "wait"
    /\ \E outcome \in {Ok, NonZero, Hang} :
         WkStep(CommandRunner, CommandRunner_wait(wk[CommandRunner], outcome))

LoadWorkerLs ==
    /\ wk[PartitionLoadWorker].pc = "ls"
    /\ \E outcome \in Outcomes, lines \in LsOutputs :
         WkStep(PartitionLoadWorker,
                PartitionLoadWorker_ls(wk[PartitionLoadWorker], outcome, lines))

LoadWorkerLine ==
    /\ wk[PartitionLoadWorker].pc = "sizes"
    /\ wk[PartitionLoadWorker].i <= Len(wk[PartitionLoadWorker].input)
    /\ \E outcome \in Outcomes :
         WkStep(PartitionLoadWorker,
                PartitionLoadWorker_line(wk[PartitionLoadWorker], outcome))

LoadWorkerEnd ==
    /\ wk[PartitionLoadWorker].pc = "sizes"
    /\ wk[PartitionLoadWorker].i > Len(wk[PartitionLoadWorker].input)
    /\ WkStep(PartitionLoadWorker, PartitionLoadWorker_end(wk[PartitionLoadWorker]))

PullWorkerDd ==
    /\ wk[PartitionPullWorker].pc = "dd"
    /\ wk[PartitionPullWorker].i <= Len(wk[PartitionPullWorker].input)
    /\ \E outcome \in Outcomes :
         WkStep(PartitionPullWorker,
                PartitionPullWorker_dd(wk[PartitionPullWorker], outcome))

PullWorkerPull ==
    /\ wk[PartitionPullWorker].pc = "pull"
    /\ \E outcome \in Outcomes :
         WkStep(PartitionPullWorker,
                PartitionPullWorker_pull(wk[PartitionPullWorker], outcome))

PullWorkerRm ==
    /\ wk[PartitionPullWorker].pc = "rm"
    /\ \E outcome \in Outcomes :
         WkStep(PartitionPullWorker,
                PartitionPullWorker_rm(wk[PartitionPullWorker], outcome))

PullWorkerEnd ==
    /\ wk[PartitionPullWorker].pc = "dd"
    /\ wk[PartitionPullWorker].i > Len(wk[PartitionPullWorker].input)
    /\ WkStep(PartitionPullWorker, PartitionPullWorker_end(wk[PartitionPullWorker]))

FlashWorkerPush ==
    /\ wk[PartitionFlashWorker].pc = "push"
    /\ \E outcome \in Outcomes :
         WkStep(PartitionFlashWorker,
                PartitionFlashWorker_push(wk[PartitionFlashWorker], outcome))

FlashWorkerDd ==
    /\ wk[PartitionFlashWorker].pc = "dd"
    /\ \E outcome \in Outcomes :
         WkStep(PartitionFlashWorker,
                PartitionFlashWorker_dd(wk[PartitionFlashWorker], outcome))

FlashWorkerRm ==
    /\ wk[PartitionFlashWorker].pc = "rm"
    /\ \E outcome \in Outcomes :
         WkStep(PartitionFlashWorker,
                PartitionFlashWorker_rm(wk[PartitionFlashWorker], outcome))

DeviceInfoCommand ==
    /\ wk[DeviceInfoWorker].pc = "command"
    /\ wk[DeviceInfoWorker].i <= NumInfoCommands
    /\ \E outcome \in Outcomes :
         WkStep(DeviceInfoWorker,
                DeviceInfoWorker_command(wk[DeviceInfoWorker], outcome))

DeviceInfoTimeout ==
    /\ wk[DeviceInfoWorker].pc = "hung"
    /\ WkStep(DeviceInfoWorker, DeviceInfoWorker_timeout(wk[DeviceInfoWorker]))

DeviceInfoEnd ==
    /\ wk[DeviceInfoWorker].pc = "command"
    /\ wk[DeviceInfoWorker].i > NumInfoCommands
    /\ WkStep(DeviceInfoWorker, DeviceInfoWorker_end(wk[DeviceInfoWorker]))

\* the steps of run() of worker w
WorkerRun(w) ==
    CASE w = ADBThread -> ADBThreadRun
      [] w = CommandRunner -> CommandRunnerPopen \/ CommandRunnerRead \/ CommandRunnerWait
      [] w = PartitionLoadWorker -> LoadWorkerLs \/ LoadWorkerLine \/ LoadWorkerEnd
      [] w = PartitionPullWorker ->
            PullWorkerDd \/ PullWorkerPull \/ PullWorkerRm \/ PullWorkerEnd
      [] w = PartitionFlashWorker -> FlashWorkerPush \/ FlashWorkerDd \/ FlashWorkerRm
      [] OTHER -> DeviceInfoCommand \/ DeviceInfoTimeout \/ DeviceInfoEnd

\* the worker as constructed and started: the first statement of run() is next
Started(w, input) ==
    [WorkerIdle EXCEPT
        !.pc = CASE w = ADBThread -> "check_output"
                 [] w = CommandRunner -> "popen"
                 [] w = PartitionLoadWorker -> "ls"
                 [] w = PartitionPullWorker -> "dd"
                 [] w = PartitionFlashWorker -> "push"
                 [] OTHER -> "command",
        !.i = 1,
        !.input = input]

\* selections a pull or flash worker can be constructed with
Selections == {q \in SeqsUpTo(Parts, MaxParts) :
                  \A j, k \in 1..Len(q) : j # k => q[j] # q[k]}

WorkerInputs(w) ==
    CASE w = PartitionPullWorker -> {q \in Selections : Len(q) >= 1}
      [] w = PartitionFlashWorker -> {q \in Selections : Len(q) = 1}
      [] OTHER -> {<<>>}

Active == {w \in Workers : wk[w].pc # "idle"}

\* a window constructs a worker and calls start()
WorkerStart ==
    \E w \in Workers :
        /\ wk[w].pc = "idle"
        /\ Cardinality(Active) < MaxActive
        /\ \E input \in WorkerInputs(w) : WkStep(w, Started(w, input))

\* the finished worker object is dropped; the next start constructs a new one
WorkerDropped ==
    \E w \in Workers :
        /\ wk[w].pc = "done"
        /\ WkStep(w, WorkerIdle)

WorkersNext ==
    \/ WorkerStart
    \/ WorkerDropped
    \/ ADBThreadRun
    \/ CommandRunnerPopen
    \/ CommandRunnerRead
    \/ CommandRunnerWait
    \/ LoadWorkerLs
    \/ LoadWorkerLine
    \/ LoadWorkerEnd
    \/ PullWorkerDd
    \/ PullWorkerPull
    \/ PullWorkerRm
    \/ PullWorkerEnd
    \/ FlashWorkerPush
    \/ FlashWorkerDd
    \/ FlashWorkerRm
    \/ DeviceInfoCommand
    \/ DeviceInfoTimeout
    \/ DeviceInfoEnd

(***************************************************************************)
(* The partition manager window (src/modules/partitionmanager.py).         *)
(* partitions_data is the list the load worker delivered, rows the order   *)
(* of the rows of the item model, checked the partitions whose checkbox is *)
(* ticked, selected_partitions the list the operations work on, controls   *)
(* whether the five controls (refresh, tree, toggle, pull, flash) are      *)
(* enabled, handled how many signals of each worker's run the window has   *)
(* handled, answers the replies of the dialogs of the last flash request.  *)
(***************************************************************************)
PmWorkers == {PartitionLoadWorker, PartitionPullWorker, PartitionFlashWorker}

PmInit == [open |-> FALSE, partitions_data |-> <<>>, rows |-> <<>>, checked |-> {},
           selected_partitions |-> <<>>, controls |-> TRUE, descending |-> FALSE,
           handled |-> [w \in PmWorkers |-> 0], answers |-> <<>>]

\* a handler's result: the window's state and the worker it started, if any
Result(s, started) == [pm |-> s, started |-> started]
NoWorker == <<>>

load_partitions(s) ==
    Result([s EXCEPT !.controls = FALSE, !.handled[PartitionLoadWorker] = 0],
           <<PartitionLoadWorker, <<>>>>)

\* the rows of the model sorted by the name column
SortRows(rows, descending) ==
    SortSeq(rows, LAMBDA x, y : IF descending THEN x > y ELSE x < y)

on_partitions_loaded(s, partitions_data) ==
    [s EXCEPT !.partitions_data = partitions_data,
              !.selected_partitions = <<>>,
              !.checked = {},
              !.descending = FALSE,
              !.rows = SortRows(partitions_data, FALSE)]

\* on_loading_finished, on_loading_error, pull_finished and flash_finished
\* close the dialog, enable the five controls and report
enable_controls(s) == [s EXCEPT !.controls = TRUE]

update_selection_from_checkbox(s, row) ==
    LET partition_info == s.partitions_data[row]
        selected == s.selected_partitions
    IN IF s.rows[row] \in s.checked
       THEN IF \E j \in 1..Len(selected) : selected[j] = partition_info
            THEN s
            ELSE [s EXCEPT !.selected_partitions = Append(@, partition_info)]
       ELSE [s EXCEPT !.selected_partitions = SelectSeq(@, LAMBDA x : x # partition_info)]

toggle_selection(s, row) ==
    IF row < 1 \/ row > Len(s.partitions_data) THEN s
    ELSE update_selection_from_checkbox(
             [s EXCEPT !.checked = IF s.rows[row] \in @ THEN @ \ {s.rows[row]}
                                   ELSE @ \cup {s.rows[row]}], row)

toggle_partition_selection(s) ==
    LET select_all == \E row \in 1..Len(s.rows) : s.rows[row] \notin s.checked
    IN IF select_all
       THEN [s EXCEPT !.checked = {s.rows[row] : row \in 1..Len(s.rows)},
                      !.selected_partitions = s.partitions_data]
       ELSE [s EXCEPT !.checked = {}, !.selected_partitions = <<>>]

\* a click on the header of the name column
header_clicked(s) ==
    [s EXCEPT !.descending = ~@, !.rows = SortRows(@, ~s.descending)]

NoDir == ""

\* pull_partitions without the setEnabled(False) calls
pull_partitions_controls_left_enabled(s, save_dir) ==
    IF s.selected_partitions = <<>> THEN Result(s, NoWorker)
    ELSE IF save_dir = NoDir THEN Result(s, NoWorker)
    ELSE Result([s EXCEPT !.handled[PartitionPullWorker] = 0],
                <<PartitionPullWorker, s.selected_partitions>>)

pull_partitions(s, save_dir) ==
    IF s.selected_partitions = <<>> THEN Result(s, NoWorker)
    ELSE IF save_dir = NoDir THEN Result(s, NoWorker)
    ELSE Result([s EXCEPT !.controls = FALSE, !.handled[PartitionPullWorker] = 0],
                <<PartitionPullWorker, s.selected_partitions>>)

\* flash_partition without the check for more than one selected partition
flash_partition_any_selection(s, reply, image_path) ==
    IF Len(s.selected_partitions) = 0 THEN Result([s EXCEPT !.answers = <<>>], NoWorker)
    ELSE IF reply # Yes THEN Result([s EXCEPT !.answers = <<reply>>], NoWorker)
    ELSE IF image_path = NoImage
         THEN Result([s EXCEPT !.answers = <<reply, image_path>>], NoWorker)
    ELSE Result([s EXCEPT !.answers = <<reply, image_path>>, !.controls = FALSE,
                          !.handled[PartitionFlashWorker] = 0],
                <<PartitionFlashWorker, <<s.selected_partitions[1]>>>>)

flash_partition(s, reply, image_path) ==
    IF Len(s.selected_partitions) = 0 THEN Result([s EXCEPT !.answers = <<>>], NoWorker)
    ELSE IF Len(s.selected_partitions) > 1
         THEN Result([s EXCEPT !.answers = <<>>], NoWorker)
    ELSE IF reply # Yes THEN Result([s EXCEPT !.answers = <<reply>>], NoWorker)
    ELSE IF image_path = NoImage
         THEN Result([s EXCEPT !.answers = <<reply, image_path>>], NoWorker)
    ELSE Result([s EXCEPT !.answers = <<reply, image_path>>, !.controls = FALSE,
                          !.handled[PartitionFlashWorker] = 0],
                <<PartitionFlashWorker, <<s.selected_partitions[1]>>>>)

\* the handler's result becomes the next state
PmStep(res) ==
    /\ pm' = res.pm
    /\ wk' = IF res.started = NoWorker THEN wk
             ELSE [wk EXCEPT ![res.started[1]] = Started(res.started[1], res.started[2])]
    /\ UNCHANGED <<gsi, fe, ui, term, tm, prev>>

\* PartitionManager.__init__ ends with load_partitions()
PmOpen ==
    /\ ~pm.open
    /\ \E res \in {load_partitions([pm EXCEPT !.open = TRUE])} : PmStep(res)

PmRefreshClicked ==
    /\ pm.open /\ pm.controls
    /\ \E res \in {load_partitions(pm)} : PmStep(res)

\* the next signal of worker w that the window has not handled yet
Pending(w, name) ==
    /\ pm.open
    /\ pm.handled[w] < Len(wk[w].sigs)
    /\ wk[w].sigs[pm.handled[w] + 1].name = name

Handled(s, w) == Result([s EXCEPT !.handled[w] = @ + 1], NoWorker)

\* the window has handled the last signal of worker w: run() has returned and
\* nothing reads the worker object again before the next start replaces it
PmRunOver(s, w) ==
    /\ pm' = [s EXCEPT !.handled[w] = 0]
    /\ wk' = [wk EXCEPT ![w] = WorkerIdle]
    /\ UNCHANGED <<gsi, fe, ui, term, tm, prev>>

PmOnPartitionsLoaded ==
    /\ Pending(PartitionLoadWorker, "partitions_loaded")
    /\ \E arg \in {wk[PartitionLoadWorker].sigs[pm.handled[PartitionLoadWorker] + 1].args[1]} :
         PmStep(Handled(on_partitions_loaded(pm, arg), PartitionLoadWorker))

PmOnLoadingFinished ==
    /\ Pending(PartitionLoadWorker, "finished_loading")
    /\ \E s \in {enable_controls(pm)} : PmRunOver(s, PartitionLoadWorker)

PmOnLoadingError ==
    /\ Pending(PartitionLoadWorker, "error_occurred")
    /\ \E s \in {enable_controls(pm)} : PmRunOver(s, PartitionLoadWorker)

PmPullFinished ==
    /\ Pending(PartitionPullWorker, "finished_with_status")
    /\ \E s \in {enable_controls(pm)} : PmRunOver(s, PartitionPullWorker)

PmFlashFinished ==
    /\ Pending(PartitionFlashWorker, "finished_with_status")
    /\ \E s \in {enable_controls(pm)} : PmRunOver(s, PartitionFlashWorker)

PmRowClicked ==
    /\ pm.open /\ pm.controls
    /\ \E row \in 1..Len(pm.rows) : PmStep(Result(toggle_selection(pm, row), NoWorker))

PmToggleAllClicked ==
    /\ pm.open /\ pm.controls
    /\ \E s \in {toggle_partition_selection(pm)} : PmStep(Result(s, NoWorker))

PmHeaderClicked ==
    /\ pm.open /\ pm.controls
    /\ \E s \in {header_clicked(pm)} : PmStep(Result(s, NoWorker))

PmPullClicked ==
    /\ pm.open /\ pm.controls
    /\ \E save_dir \in {NoDir, "dir"} : PmStep(pull_partitions(pm, save_dir))

PmFlashClicked ==
    /\ pm.open /\ pm.controls
    /\ \E reply \in Replies, image_path \in Images \cup {NoImage} :
         PmStep(flash_partition(pm, reply, image_path))

PmNext ==
    \/ PmOpen
    \/ PmRefreshClicked
    \/ PmOnPartitionsLoaded
    \/ PmOnLoadingFinished
    \/ PmOnLoadingError
    \/ PmPullFinished
    \/ PmFlashFinished
    \/ PmRowClicked
    \/ PmToggleAllClicked
    \/ PmHeaderClicked
    \/ PmPullClicked
    \/ PmFlashClicked
    \/ LoadWorkerLs
    \/ LoadWorkerLine
    \/ LoadWorkerEnd
    \/ PullWorkerDd
    \/ PullWorkerPull
    \/ PullWorkerRm
    \/ PullWorkerEnd
    \/ FlashWorkerPush
    \/ FlashWorkerDd
    \/ FlashWorkerRm

(***************************************************************************)
(* The file explorer window (src/modules/fileexplorer.py) and the push of  *)
(* a boot animation (src/modules/bootanimcreator.py).  Each operation is a *)
(* chain of commands run on worker threads; the handler of a command's     *)
(* completion signal decides what follows.  For each chain the state holds *)
(* the command in flight (pc), how often each command was started in the   *)
(* operation, whether a command of it has failed, and what the user was    *)
(* shown: a message box ("box"), a console line ("console"), a status line *)
(* ("status") or nothing ("none").                                         *)
(***************************************************************************)
FeInit == [ls_pc |-> "idle", ls_failed |-> FALSE, ls_parsed |-> FALSE, ls_box |-> FALSE,
           rows |-> <<>>,
           pull_pc |-> "idle", pulls |-> 0, chmods |-> 0, chmod_failed |-> FALSE,
           pull_shown |-> "none",
           exec_pc |-> "idle", exec_failed |-> FALSE, exec_shown |-> "none",
           del_pc |-> "idle", test_failed |-> FALSE, rm_rf |-> FALSE, del_shown |-> "none",
           push_pc |-> "idle", pushes |-> 0, cps |-> 0, push_shown |-> "none"]

\* the outcomes of a command that returns
Returned == {Ok, NonZero, Raise}

\* output.strip() is not empty
Stripped(output) == \E j \in 1..Len(output) : output[j] # LineBlank

\* the lines of the output that the loop of process_directory_listing turns
\* into rows: not blank, not "total", not a message of ls, at least 8 parts
IsRow(ln) == ln \in {LineEntry, LineExcMsg}

refresh_file_list(s) == [s EXCEPT !.ls_pc = "ls", !.rows = <<>>]

process_directory_listing(s, output, error) ==
    IF error /\ ~Stripped(output)
    THEN [s EXCEPT !.ls_pc = "idle", !.ls_failed = error, !.ls_box = TRUE,
                   !.ls_parsed = FALSE]
    ELSE [s EXCEPT !.ls_pc = "idle", !.ls_failed = error, !.ls_box = FALSE,
                   !.ls_parsed = TRUE, !.rows = SelectSeq(output, IsRow)]

chmod_and_pull(s) == [s EXCEPT !.pull_pc = "chmod", !.chmods = @ + 1]

start_pull(s, is_directory) ==
    LET s1 == [s EXCEPT !.pulls = 0, !.chmods = 0, !.chmod_failed = FALSE,
                        !.pull_shown = "none"]
    IN IF is_directory THEN chmod_and_pull(s1)
       ELSE [s1 EXCEPT !.pull_pc = "pull", !.pulls = 1]

handle_pull_result(s, error) ==
    IF error THEN chmod_and_pull(s)
    ELSE [s EXCEPT !.pull_pc = "idle", !.pull_shown = "status"]

perform_pull_after_chmod(s, error) ==
    IF error THEN [s EXCEPT !.pull_pc = "idle", !.chmod_failed = TRUE, !.pull_shown = "box"]
    ELSE [s EXCEPT !.pull_pc = "pull after chmod", !.pulls = @ + 1]

\* a finish_chmod_pull that starts the transfer once more when it failed
finish_chmod_pull_again(s, error) ==
    IF error /\ s.pulls < 3 THEN [s EXCEPT !.pulls = @ + 1]
    ELSE [s EXCEPT !.pull_pc = "idle", !.pull_shown = IF error THEN "box" ELSE "status"]

finish_chmod_pull(s, error) ==
    IF error THEN [s EXCEPT !.pull_pc = "idle", !.pull_shown = "box"]
    ELSE [s EXCEPT !.pull_pc = "idle", !.pull_shown = "status"]

run_script_directly(s) == refresh_file_list([s EXCEPT !.exec_pc = "sh"])

execute_shell_script(s, root) ==
    LET s1 == [s EXCEPT !.exec_failed = FALSE, !.exec_shown = "none"]
    IN IF root THEN [s1 EXCEPT !.exec_pc = "chmod"] ELSE run_script_directly(s1)

run_script_after_chmod(s, error) ==
    IF error THEN [s EXCEPT !.exec_pc = "idle", !.exec_failed = TRUE]
    ELSE refresh_file_list([s EXCEPT !.exec_pc = "sh"])

\* both branches print to the console of the process
handle_execute_result(s, error) ==
    [s EXCEPT !.exec_pc = "idle", !.exec_failed = error, !.exec_shown = "console"]

delete_item(s, confirm) ==
    IF confirm # Yes THEN s
    ELSE [s EXCEPT !.del_pc = "test", !.test_failed = FALSE, !.rm_rf = FALSE,
                   !.del_shown = "none"]

\* "dir" in out.strip(): the test printed dir, or out is the message of the
\* exception, which quotes the command and with it the words echo "dir"
ContainsDir(out) == \E j \in 1..Len(out) : out[j] \in {LineDir, LineExcMsg}

\* the callback of the test ignores its error flag and calls perform_delete
perform_delete(s, out, error) ==
    [s EXCEPT !.del_pc = "rm", !.test_failed = error, !.rm_rf = ContainsDir(out)]

handle_delete_result(s, error) ==
    IF error THEN [s EXCEPT !.del_pc = "idle", !.del_shown = "box"]
    ELSE refresh_file_list([s EXCEPT !.del_pc = "idle", !.del_shown = "status"])

FeStep(s) == fe' = s /\ UNCHANGED <<gsi, wk, pm, ui, term, tm, prev>>

FeRefreshClicked ==
    /\ fe.ls_pc = "idle"
    /\ \E s \in {refresh_file_list(fe)} : FeStep(s)

FeListingFinished ==
    /\ fe.ls_pc = "ls"
    /\ \E outcome \in Returned, out \in ShellOutputs :
         LET res == ADBThread_result(outcome, out)
         IN FeStep(process_directory_listing(fe, res[1], res[2]))

FePullClicked ==
    /\ fe.pull_pc = "idle"
    /\ \E is_directory \in BOOLEAN : FeStep(start_pull(fe, is_directory))

FePullFinished ==
    /\ fe.pull_pc = "pull"
    /\ \E error \in BOOLEAN : FeStep(handle_pull_result(fe, error))

FeChmodFinished ==
    /\ fe.pull_pc = "chmod"
    /\ \E outcome \in Returned :
         FeStep(perform_pull_after_chmod(fe, ADBThread_result(outcome, <<>>)[2]))

FeChmodPullFinished ==
    /\ fe.pull_pc = "pull after chmod"
    /\ \E error \in BOOLEAN : FeStep(finish_chmod_pull(fe, error))

FeExecuteClicked ==
    /\ fe.exec_pc = "idle"
    /\ \E root \in BOOLEAN : FeStep(execute_shell_script(fe, root))

FeExecChmodFinished ==
    /\ fe.exec_pc = "chmod"
    /\ \E outcome \in Returned :
         FeStep(run_script_after_chmod(fe, ADBThread_result(outcome, <<>>)[2]))

FeExecuteFinished ==
    /\ fe.exec_pc = "sh"
    /\ \E outcome \in Returned :
         FeStep(handle_execute_result(fe, ADBThread_result(outcome, <<>>)[2]))

FeDeleteClicked ==
    /\ fe.del_pc = "idle"
    /\ \E confirm \in Replies : FeStep(delete_item(fe, confirm))

FeIsDirFinished ==
    /\ fe.del_pc = "test"
    /\ \E outcome \in Returned, out \in {<<LineDir>>, <<>>, <<LineOneWord>>} :
         LET res == ADBThread_result(outcome, out)
         IN FeStep(perform_delete(fe, res[1], res[2]))

FeDeleteFinished ==
    /\ fe.del_pc = "rm"
    /\ \E outcome \in Returned :
         FeStep(handle_delete_result(fe, ADBThread_result(outcome, <<>>)[2]))

\* ---- BootAnimCreator: push_zip_flow, _push_zip_verbose_sync, _on_push_done ----
\* the function runs on a FuncThread; an exception it raises (a failed step,
\* a TimeoutExpired) reaches _on_push_done as the error of the done signal
push_raised(s) == [s EXCEPT !.push_pc = "idle", !.push_shown = "box"]
push_returned(s) == [s EXCEPT !.push_pc = "idle", !.push_shown = "info"]

BaPushClicked ==
    /\ fe.push_pc = "idle"
    /\ FeStep([fe EXCEPT !.push_pc = "adb push", !.pushes = 1, !.cps = 0,
                         !.push_shown = "none"])

BaAdbPushFinished ==
    /\ fe.push_pc = "adb push"
    /\ \E outcome \in Returned :
         FeStep(IF outcome = Ok THEN [fe EXCEPT !.push_pc = "root copy", !.cps = @ + 1]
                ELSE push_raised(fe))

BaRootCopyFinished ==
    /\ fe.push_pc = "root copy"
    /\ \E outcome \in Returned :
         FeStep(CASE outcome = Ok -> push_returned(fe)
                  [] outcome = NonZero -> [fe EXCEPT !.push_pc = "remount"]
                  [] OTHER -> push_raised(fe))

\* the exit code of the remount is logged and not looked at
BaRemountFinished ==
    /\ fe.push_pc = "remount"
    /\ \E outcome \in Returned :
         FeStep(IF outcome = Raise THEN push_raised(fe)
                ELSE [fe EXCEPT !.push_pc = "retry copy", !.cps = @ + 1])

BaRetryCopyFinished ==
    /\ fe.push_pc = "retry copy"
    /\ \E outcome \in Returned :
         FeStep(IF outcome = Ok THEN push_returned(fe) ELSE push_raised(fe))

FeNext ==
    \/ FeRefreshClicked
    \/ FeListingFinished
    \/ FePullClicked
    \/ FePullFinished
    \/ FeChmodFinished
    \/ FeChmodPullFinished
    \/ FeExecuteClicked
    \/ FeExecChmodFinished
    \/ FeExecuteFinished
    \/ FeDeleteClicked
    \/ FeIsDirFinished
    \/ FeDeleteFinished
    \/ BaPushClicked
    \/ BaAdbPushFinished
    \/ BaRootCopyFinished
    \/ BaRemountFinished
    \/ BaRetryCopyFinished

(***************************************************************************)
(* What the UI thread is doing.  thread is "events" while it runs the      *)
(* event loop and otherwise names the call it is waiting in.  The app      *)
(* manager (src/modules/appmanager.py) tracks its workers in               *)
(* active_workers; running are those whose run() has not returned.  The    *)
(* terminal (src/modules/terminal.py) has a shell process and a reader     *)
(* thread.  The boot animation creator checks the ffmpeg binary.           *)
(***************************************************************************)
UiInit == [thread |-> "events", am_open |-> FALSE, active_workers |-> <<>>,
           running |-> {}, process |-> FALSE, reader_thread |-> FALSE,
           ffmpeg_path |-> ""]

AmWorkerIds == 1..MaxAmWorkers

UiStep(u) == ui' = u /\ UNCHANGED <<gsi, wk, pm, fe, term, tm, prev>>

Tracked(u) == {u.active_workers[j] : j \in 1..Len(u.active_workers)}

\* AppManagerUI.__init__ ends with load_apps(), which creates and starts the
\* first worker
AmOpen ==
    /\ ui.thread = "events" /\ ~ui.am_open
    /\ \E w \in AmWorkerIds \ ui.running :
         UiStep([ui EXCEPT !.am_open = TRUE, !.active_workers = <<w>>,
                           !.running = @ \cup {w}])

\* create_worker, then worker.start()
AmStartOperation ==
    /\ ui.thread = "events" /\ ui.am_open
    /\ \E w \in AmWorkerIds \ (Tracked(ui) \cup ui.running) :
         UiStep([ui EXCEPT !.active_workers = Append(@, w), !.running = @ \cup {w}])

\* AppManagerWorker.run returns; no adb call of it has a timeout, so it may
\* also never return
AmWorkerRunReturns ==
    \E w \in ui.running : UiStep([ui EXCEPT !.running = @ \ {w}])

\* the finished signal of a worker reaches cleanup_worker
AmCleanupWorker ==
    /\ ui.thread = "events" /\ ui.am_open
    /\ \E w \in Tracked(ui) \ ui.running :
         UiStep([ui EXCEPT !.active_workers = SelectSeq(@, LAMBDA x : x # w)])

\* closeEvent: worker.wait() for every tracked worker, without a timeout
AmCloseEvent ==
    /\ ui.thread = "events" /\ ui.am_open
    /\ UiStep(IF Tracked(ui) \cap ui.running = {}
              THEN [ui EXCEPT !.am_open = FALSE]
              ELSE [ui EXCEPT !.thread = "AppManagerUI.closeEvent"])

\* the last wait() of closeEvent returns; event.accept()
AmWaitReturns ==
    /\ ui.thread = "AppManagerUI.closeEvent"
    /\ Tracked(ui) \cap ui.running = {}
    /\ UiStep([ui EXCEPT !.thread = "events", !.am_open = FALSE])

\* start_cmd_process with nothing to clean up
TermStart ==
    /\ ui.thread = "events" /\ ~ui.process /\ ~ui.reader_thread
    /\ UiStep([ui EXCEPT !.process = TRUE, !.reader_thread = TRUE])

TermProcessExits ==
    /\ ui.process
    /\ UiStep([ui EXCEPT !.process = FALSE])

TermReaderEnds ==
    /\ ui.reader_thread /\ ~ui.process /\ ui.thread = "events"
    /\ UiStep([ui EXCEPT !.reader_thread = FALSE])

\* cleanup_process_and_threads: reader_thread.wait(2000), then the kill of
\* the process with time.sleep(0.2) or a taskkill with timeout=2
TermCleanup ==
    /\ ui.thread = "events" /\ (ui.process \/ ui.reader_thread)
    /\ UiStep([ui EXCEPT !.thread = "cleanup_process_and_threads"])

TermCleanupReturns ==
    /\ ui.thread = "cleanup_process_and_threads"
    /\ UiStep([ui EXCEPT !.thread = "events", !.process = FALSE, !.reader_thread = FALSE])

\* check_ffmpeg / _startup_ffmpeg_check: subprocess.run with timeout=6
FfmpegCheck ==
    /\ ui.thread = "events"
    /\ UiStep([ui EXCEPT !.thread = "_check_ffmpeg_version"])

FfmpegCheckReturns ==
    /\ ui.thread = "_check_ffmpeg_version"
    /\ \E outcome \in {Ok, NonZero, Raise} :
         UiStep([ui EXCEPT !.thread = "events",
                           !.ffmpeg_path = IF outcome = Raise THEN @ ELSE "ffmpeg"])

UiNext ==
    \/ AmOpen
    \/ AmStartOperation
    \/ AmWorkerRunReturns
    \/ AmCleanupWorker
    \/ AmCloseEvent
    \/ AmWaitReturns
    \/ TermStart
    \/ TermProcessExits
    \/ TermReaderEnds
    \/ TermCleanup
    \/ TermCleanupReturns
    \/ FfmpegCheck
    \/ FfmpegCheckReturns

(***************************************************************************)
(* The terminal window (src/modules/terminal.py) and the version fields of *)
(* the main window (src/main/quickadb.py).                                 *)
(*                                                                         *)
(* live is the set of shell processes this window has spawned that are     *)
(* alive, numbered in the order of their creation; process is the one      *)
(* self.process refers to (NoProcess for None); spawned counts the Popen   *)
(* calls that succeeded.  reader says whether self.reader refers to an     *)
(* OutputReader, running is its _running flag, in_shell its in_shell, and  *)
(* reader_thread the state of the QThread that runs read_output.  timers   *)
(* is the number of pending QTimer.singleShot(.., start_cmd_process).      *)
(* adb_version and fastboot_version are the attributes of the main window, *)
(* fetching the version threads that have not returned, shown the versions *)
(* the terminal window was given.  writers records, for each attribute     *)
(* that two threads can reach, which threads have assigned it since the    *)
(* object became reachable from both.                                      *)
(***************************************************************************)
NoProcess == 0
ThreadUi == "ui"
ThreadReader == "reader"
ThreadFetch == "fetch"
SharedAttrs == {"in_shell", "adb_version", "fastboot_version"}
VersionAttrs == {"adb_version", "fastboot_version"}
Unknown == "Unknown"

TermInit ==
    [ main_open |-> FALSE, adb_version |-> Unknown, fastboot_version |-> Unknown,
      fetching |-> {}, open |-> FALSE, closed |-> FALSE, system |-> "Windows",
      shown |-> <<>>, process |-> NoProcess, live |-> {}, spawned |-> 0,
      reader |-> FALSE, running |-> FALSE, in_shell |-> FALSE,
      reader_thread |-> "none", custom_rc_path |-> FALSE,
      starting_process |-> FALSE, timers |-> 0,
      writers |-> [a \in SharedAttrs |-> {}] ]

Wrote(s, a, thread) == [s EXCEPT !.writers[a] = @ \cup {thread}]

\* QuickADBApp.__init__ sets both versions to "Unknown" and calls
\* fetch_versions, which starts one thread per version
fetch_versions(s) ==
    [s EXCEPT !.main_open = TRUE, !.adb_version = Unknown,
              !.fastboot_version = Unknown, !.fetching = VersionAttrs]

\* _fetch_version, on its own thread: no executable, or setattr(self, ...)
fetch_version(s, version_attr, exe_path, outcome) ==
    LET s1 == [s EXCEPT !.fetching = @ \ {version_attr}]
        text == CASE outcome = Ok -> "version"
                  [] outcome = NonZero -> "not found or error occurred"
                  [] OTHER -> "Error fetching version"
    IN IF ~exe_path THEN s1
       ELSE Wrote([s1 EXCEPT ![version_attr] = text], version_attr, ThreadFetch)

\* OutputReader.__init__ and the wiring of start_cmd_process
NewReader(s) ==
    [s EXCEPT !.reader = TRUE, !.running = TRUE, !.in_shell = FALSE,
              !.reader_thread = "running", !.writers["in_shell"] = {}]

\* cleanup_process_and_threads.  The reader is told to stop; its thread is
\* quit, waited for and terminated; the process is killed if poll() is None:
\* by taskkill /F /T, by SIGTERM and then SIGKILL to its group, or by
\* process.kill() when that raised; then the three references are cleared.
cleanup_process_and_threads(s) ==
    [s EXCEPT !.running = FALSE,
              !.reader_thread = "none",
              !.live = IF s.process # NoProcess THEN @ \ {s.process} ELSE @,
              !.custom_rc_path = FALSE,
              !.process = NoProcess,
              !.reader = FALSE]

\* the body of start_cmd_process after the cleanup
spawn_shell(s, shell, popen) ==
    IF s.system = "Linux" /\ ~shell THEN s
    ELSE LET s1 == [s EXCEPT !.custom_rc_path = (s.system = "Linux")]
         IN IF popen # Ok THEN s1
            ELSE NewReader([s1 EXCEPT !.spawned = @ + 1,
                                      !.process = s.spawned + 1,
                                      !.live = @ \cup {s.spawned + 1}])

\* start_cmd_process without the call of cleanup_process_and_threads
start_cmd_process_without_cleanup(s, shell, popen) ==
    IF s.starting_process THEN s
    ELSE [spawn_shell([s EXCEPT !.starting_process = TRUE], shell, popen)
            EXCEPT !.starting_process = FALSE]

start_cmd_process(s, shell, popen) ==
    IF s.starting_process THEN s
    ELSE [spawn_shell(cleanup_process_and_threads(
                          [s EXCEPT !.starting_process = TRUE]), shell, popen)
            EXCEPT !.starting_process = FALSE]

\* what the input line holds when Enter is pressed
CommandTexts == {"", "exit", "adb shell", "ls"}

\* send_command.  The write to stdin raises AttributeError when process is
\* None (its text names stdin), BrokenPipeError or OSError when the process
\* has exited, and the environment may make it raise for a live process.
send_command(s, command, write, shell, popen) ==
    IF command = "" THEN s
    ELSE LET s1 == IF command = "exit" /\ s.reader /\ s.in_shell
                   THEN Wrote([s EXCEPT !.in_shell = FALSE], "in_shell", ThreadUi)
                   ELSE s
             s2 == IF command = "adb shell" /\ s1.reader
                   THEN Wrote([s1 EXCEPT !.in_shell = TRUE], "in_shell", ThreadUi)
                   ELSE s1
         IN IF s2.process = NoProcess \/ s2.process \notin s2.live \/ write # Ok
            THEN start_cmd_process(s2, shell, popen)
            ELSE s2

\* kill_process: cleanup, then QTimer.singleShot(200, self.start_cmd_process)
kill_process(s) == [cleanup_process_and_threads(s) EXCEPT !.timers = @ + 1]

Terminal_closeEvent(s) == [cleanup_process_and_threads(s) EXCEPT !.closed = TRUE]

\* one round of the loop of OutputReader.read_output, on the reader thread:
\* a line that matches a prompt pattern sets in_shell
read_output(s, prompt) ==
    IF prompt THEN Wrote([s EXCEPT !.in_shell = TRUE], "in_shell", ThreadReader)
    ELSE s

TermBounded(s) == s.spawned <= MaxShells /\ s.timers <= MaxTimers

TermStep(s) == TermBounded(s) /\ term' = s /\ UNCHANGED <<gsi, wk, pm, fe, ui, tm, prev>>

QaOpen ==
    /\ ~term.main_open
    /\ \E s \in {fetch_versions(term)} : TermStep(s)

QaFetchVersionReturns ==
    \E version_attr \in term.fetching, exe_path \in BOOLEAN, outcome \in {Ok, NonZero, Raise} :
        \E s \in {fetch_version(term, version_attr, exe_path, outcome)} : TermStep(s)

\* QuickADBApp.open_terminal and TerminalWindow.__init__: the versions are
\* read from the main window, the references are None, and
\* QTimer.singleShot(100, self.start_cmd_process) is set
TermOpen ==
    /\ term.main_open /\ ~term.open
    /\ \E system \in {"Windows", "Linux"} :
         TermStep([term EXCEPT !.open = TRUE, !.system = system,
                               !.shown = <<term.adb_version, term.fastboot_version>>,
                               !.timers = 1])

\* a single-shot timer fires, also after the window was closed
TermTimerFires ==
    /\ term.timers > 0
    /\ \E shell \in BOOLEAN, popen \in {Ok, Raise} :
         TermStep(start_cmd_process([term EXCEPT !.timers = @ - 1], shell, popen))

TermSendCommand ==
    /\ term.open /\ ~term.closed
    /\ \E command \in CommandTexts, write \in {Ok, Raise}, shell \in BOOLEAN,
          popen \in {Ok, Raise} :
         TermStep(send_command(term, command, write, shell, popen))

TermKillClicked ==
    /\ term.open /\ ~term.closed
    /\ \E s \in {kill_process(term)} : TermStep(s)

TermCloseEvent ==
    /\ term.open /\ ~term.closed
    /\ \E s \in {Terminal_closeEvent(term)} : TermStep(s)

\* the shell exits by itself
TermShellExits ==
    \E p \in term.live :
        \E s \in {[term EXCEPT !.live = @ \ {p}]} : TermStep(s)

TermReaderReadsLine ==
    /\ term.reader_thread = "running" /\ term.running
    /\ term.process \in term.live
    /\ \E prompt \in BOOLEAN : TermStep(read_output(term, prompt))

\* poll() is not None: the loop ends, the rest is read, finished is emitted
\* and the thread quits
TermReaderThreadEnds ==
    /\ term.reader_thread = "running"
    /\ term.process \notin term.live
    /\ TermStep([term EXCEPT !.reader_thread = "finished"])

TermNext ==
    \/ QaOpen
    \/ QaFetchVersionReturns
    \/ TermOpen
    \/ TermTimerFires
    \/ TermSendCommand
    \/ TermKillClicked
    \/ TermCloseEvent
    \/ TermShellExits
    \/ TermReaderReadsLine
    \/ TermReaderThreadEnds

(***************************************************************************)
(* The theme of the windows (src/util/thememanager.py and the payload      *)
(* dumper's own copy in src/modules/payloaddumper.py).  config is the      *)
(* content of the saved-name file in the temporary directory (Absent when  *)
(* there is no file), themes the files of the themes directory, stylesheet *)
(* what the widget themed last was given ("" for the classic look), raised *)
(* whether the last call ended with an exception, by the function that ran *)
(* last.                                                                   *)
(***************************************************************************)
Absent == "<absent>"
DarkQss == "dark.qss"
LightQss == "light.qss"
NoneName == "none"
\* what the saved-name file can hold: what the program writes, the same
\* with a newline, the name of a file that is gone, and nothing (a file
\* that was truncated and not written)
ConfigContents == {DarkQss, LightQss, NoneName, "none\n", "gone.qss", "", "\n"}
ThemeDirs == {{DarkQss}, {DarkQss, LightQss}}

TmInit == [config |-> Absent, themes |-> {DarkQss, LightQss}, stylesheet |-> "unset",
           raised |-> FALSE, by |-> "none"]

\* str.strip()
Strip(content) ==
    CASE content = "none\n" -> NoneName
      [] content = "\n" -> ""
      [] OTHER -> content

\* os.path.exists(os.path.join(root, "themes", name)): joining the empty
\* name gives the themes directory itself
PathExists(s, name) == name = "" \/ name \in s.themes

ensure_default(s) == IF s.config = Absent THEN [s EXCEPT !.config = DarkQss] ELSE s

read_theme_name(s) == Strip(s.config)

write_theme_name(s, name) == [s EXCEPT !.config = name]

\* open() of a path that is a directory or does not exist raises; otherwise
\* the style sheet is set and the base name of the path is saved
load_qss(s, name) ==
    IF name \notin s.themes THEN [s EXCEPT !.raised = TRUE]
    ELSE write_theme_name([s EXCEPT !.stylesheet = name], name)

apply_classic(s) == write_theme_name([s EXCEPT !.stylesheet = ""], NoneName)

apply_theme(s) ==
    LET s1 == ensure_default(s)
        name == read_theme_name(s1)
    IN IF name = NoneName THEN apply_classic(s1)
       ELSE IF ~PathExists(s1, name)
            THEN load_qss(write_theme_name(s1, DarkQss), DarkQss)
            ELSE load_qss(s1, name)

\* PayloadDumperApp.check_and_apply_global_theme with load_theme_qss and
\* apply_classic_theme
check_and_apply_global_theme(s) ==
    LET s1 == IF s.config = Absent THEN [s EXCEPT !.config = DarkQss] ELSE s
        value == Strip(s1.config)
    IN IF value = NoneName THEN apply_classic(s1)
       ELSE IF PathExists(s1, value) THEN load_qss(s1, value)
       ELSE LET s2 == load_qss(s1, DarkQss)
            IN IF s2.raised THEN s2 ELSE [s2 EXCEPT !.config = DarkQss]

TmStep(s, by) ==
    /\ tm' = [s EXCEPT !.by = by]
    /\ UNCHANGED <<gsi, wk, pm, fe, ui, term, prev>>

Called(s) == [s EXCEPT !.raised = FALSE]

\* a window is constructed: ThemeManager.apply_theme(self)
TmApplyTheme == \E s \in {apply_theme(Called(tm))} : TmStep(s, "apply_theme")

\* the payload dumper window is constructed
TmCheckAndApplyGlobalTheme ==
    \E s \in {check_and_apply_global_theme(Called(tm))} :
        TmStep(s, "check_and_apply_global_theme")

\* show_theme_selector: a button per .qss file of the themes directory
TmThemeSelected ==
    \E name \in tm.themes :
        \E s \in {load_qss(Called(tm), name)} : TmStep(s, "load_qss")

TmClassicSelected == \E s \in {apply_classic(Called(tm))} : TmStep(s, "apply_classic")

\* the saved-name file lives in the temporary directory: it can be removed,
\* left empty by an interrupted write, or hold the name of another version
TmConfigChanged ==
    \E content \in ConfigContents \cup {Absent} :
        /\ content # tm.config
        /\ TmStep([tm EXCEPT !.config = content], "environment")

\* a theme file other than dark.qss is added to or removed from the directory
TmThemesChanged ==
    \E themes \in ThemeDirs :
        /\ themes # tm.themes
        /\ TmStep([tm EXCEPT !.themes = themes], "environment")

TmNext ==
    \/ TmApplyTheme
    \/ TmCheckAndApplyGlobalTheme
    \/ TmThemeSelected
    \/ TmClassicSelected
    \/ TmConfigChanged
    \/ TmThemesChanged

(***************************************************************************)
(* The preview of a selected animation in the boot animation creator       *)
(* (src/modules/bootanimcreator.py).  selected_anim_file is the kind of    *)
(* the selected file, threads the FuncThreads of extractions started and   *)
(* not yet handled (pc "running" until run() has emitted done, then        *)
(* result is the folder returned or NoDirId and error whether an exception *)
(* was passed), dirs the temporary frame folders that exist, numbered in   *)
(* the order of mkdtemp, made their count, seq_created whether frames were *)
(* loaded, shown what the user was told last.                              *)
(***************************************************************************)
NoDirId == 0
NoFile == "none"
Gif == "gif"
Video == "video"

PrevInit == [selected_anim_file |-> NoFile, threads |-> <<>>, dirs |-> {}, made |-> 0,
             seq_created |-> FALSE, shown |-> "none"]

\* what Image.open and the frame loop of Pillow do with the file
GifReads == {"frames", "no frames", "raises"}

\* tempfile.mkdtemp
mkdtemp(s) == [s EXCEPT !.made = @ + 1, !.dirs = @ \cup {s.made + 1}]

rmtree(s, d) == [s EXCEPT !.dirs = @ \ {d}]

\* a function's return: the state it leaves, and the folder it returns or
\* the exception it raises
Return(s, d) == [state |-> s, result |-> d, error |-> FALSE]
Raised(s) == [state |-> s, result |-> NoDirId, error |-> TRUE]

\* extract_video_frames_sync: subprocess.run(ffmpeg, timeout=600) returns
\* with exit code 0 or not, or raises (TimeoutExpired, OSError)
extract_video_frames_sync(s, is_file, ffmpeg_bin, outcome) ==
    IF ~is_file THEN Raised(s)
    ELSE IF ~ffmpeg_bin THEN Raised(s)
    ELSE LET s1 == mkdtemp(s)
             out_dir == s.made + 1
         IN CASE outcome = Ok -> Return(s1, out_dir)
              [] outcome = NonZero -> Raised(rmtree(s1, out_dir))
              [] OTHER -> Raised(s1)

extract_gif_frames_sync(s, is_file, read) ==
    IF ~is_file THEN Raised(s)
    ELSE LET s1 == mkdtemp(s)
             out_dir == s.made + 1
         IN CASE read = "frames" -> Return(s1, out_dir)
              [] read = "no frames" -> Raised(rmtree(s1, out_dir))
              [] OTHER -> Raised(s1)

\* FuncThread.run of thread j: done.emit(res, None) or done.emit(None, e)
FuncThread_run(s, j, ret) ==
    [ret.state EXCEPT !.threads[j] = [@ EXCEPT !.pc = "emitted",
                                               !.result = ret.result,
                                               !.error = ret.error]]

\* select_animation_file with a file chosen
select_animation_file(s, fn) == [s EXCEPT !.selected_anim_file = fn, !.shown = "selected"]

preview_selected_animation(s, ffmpeg) ==
    IF s.selected_anim_file = NoFile THEN [s EXCEPT !.shown = "no file"]
    ELSE IF s.selected_anim_file = Video /\ ~ffmpeg THEN [s EXCEPT !.shown = "ffmpeg missing"]
    ELSE [s EXCEPT !.threads = Append(@, [fn |-> s.selected_anim_file, pc |-> "running",
                                           result |-> NoDirId, error |-> FALSE]),
                   !.shown = "extracting"]

\* the threads without thread j (the cleanup connected to done)
WithoutThread(threads, j) ==
    [k \in 1..(Len(threads) - 1) |-> IF k < j THEN threads[k] ELSE threads[k + 1]]

\* _on_preview_extraction_done for thread j; frames says whether
\* build_sequence_from_flat_frames loaded any frame
on_preview_extraction_done(s, j, frames) ==
    LET th == s.threads[j]
        s1 == [s EXCEPT !.threads = WithoutThread(@, j)]
    IN IF th.error THEN [s1 EXCEPT !.shown = "extraction failed"]
       ELSE rmtree([s1 EXCEPT !.seq_created = frames,
                              !.shown = IF frames THEN "playing" ELSE "no frames"],
                   th.result)

PrevBounded(s) == Len(s.threads) <= MaxPreviews /\ s.made <= MaxDirs

PrevStep(s) ==
    /\ PrevBounded(s)
    /\ prev' = s
    /\ UNCHANGED <<gsi, wk, pm, fe, ui, term, tm>>

PrevSelectAnimation ==
    \E fn \in {Gif, Video} :
        \E s \in {select_animation_file(prev, fn)} : PrevStep(s)

PrevPreviewClicked ==
    \E ffmpeg \in BOOLEAN :
        \E s \in {preview_selected_animation(prev, ffmpeg)} : PrevStep(s)

PrevGifThreadRuns ==
    \E j \in 1..Len(prev.threads) :
        /\ prev.threads[j].pc = "running" /\ prev.threads[j].fn = Gif
        /\ \E is_file \in BOOLEAN, read \in GifReads :
             PrevStep(FuncThread_run(prev, j, extract_gif_frames_sync(prev, is_file, read)))

PrevVideoThreadRuns ==
    \E j \in 1..Len(prev.threads) :
        /\ prev.threads[j].pc = "running" /\ prev.threads[j].fn = Video
        /\ \E is_file \in BOOLEAN, ffmpeg_bin \in BOOLEAN, outcome \in {Ok, NonZero, Raise} :
             PrevStep(FuncThread_run(prev, j,
                        extract_video_frames_sync(prev, is_file, ffmpeg_bin, outcome)))

PrevExtractionDone ==
    \E j \in 1..Len(prev.threads) :
        /\ prev.threads[j].pc = "emitted"
        /\ \E frames \in BOOLEAN : PrevStep(on_preview_extraction_done(prev, j, frames))

PrevNext ==
    \/ PrevSelectAnimation
    \/ PrevPreviewClicked
    \/ PrevGifThreadRuns
    \/ PrevVideoThreadRuns
    \/ PrevExtractionDone

Init ==
    /\ gsi = GsiInit
    /\ wk = [w \in Workers |-> WorkerIdle]
    /\ pm = PmInit
    /\ fe = FeInit
    /\ ui = UiInit
    /\ term = TermInit
    /\ tm = TmInit
    /\ prev = PrevInit

SpecGsi == Init /\ [][GsiNext]_vars

SpecWorkers == Init /\ [][WorkersNext]_vars

SpecPM == Init /\ [][PmNext]_vars

SpecFE == Init /\ [][FeNext]_vars

SpecUI == Init /\ [][UiNext]_vars

SpecTerm == Init /\ [][TermNext]_vars

SpecTheme == Init /\ [][TmNext]_vars

SpecPreview == Init /\ [][PrevNext]_vars

(***************************************************************************)
(* Claims about the GSI flasher                                            *)
(***************************************************************************)

\* C2: whenever the callback of the `adb devices` pre-check has run, it has
\* either issued a `fastboot devices` check or issued the reboot-to-fastboot
\* command whose completion issues one, whatever adb printed.
C2_FastbootCheckFollowsAdb ==
    [][gsi'.cmds[CmdAdbDevices] < gsi.cmds[CmdAdbDevices]
        => \/ gsi'.cmds[CmdFastbootDevices] > gsi.cmds[CmdFastbootDevices]
           \/ gsi'.cmds[CmdAdbReboot] > gsi.cmds[CmdAdbReboot]]_vars

\* C3: while no fastboot device has been detected, at most RetryMax
\* `fastboot devices` checks are issued between two clicks on Re-check
\* Devices (or since the window opened).
C3_AtMostRetryMaxChecks == gsi.fb_checks <= RetryMax

\* C5: the Flash GSI Image button is enabled only when an image is loaded and
\* a system partition was detected or fastbootd was confirmed.
C5_FlashButtonGuard ==
    gsi.flash_gsi_btn =>
        /\ gsi.gsi_image_path # NoImage
        /\ (gsi.system_partition_available \/ gsi.fastbootd_confirmed)

\* the button enabled on the fastbootd route, after a flash has been started
\* and has finished
C5_Witness ==
    /\ gsi.flash_gsi_btn
    /\ gsi.fastbootd_confirmed
    /\ ~gsi.system_partition_available
    /\ gsi.gsi_image_path # NoImage

\* C16: at most one `fastboot flash system` command is in flight, and while
\* one is in flight (from flash_gsi_image until its finished callback) the
\* Flash GSI Image button is disabled.
C16_OneFlashAtATime ==
    /\ gsi.cmds[CmdFlash] <= 1
    /\ gsi.cmds[CmdFlash] > 0 => ~gsi.flash_gsi_btn

\* two flash commands in flight at once
C16_Witness == gsi.cmds[CmdFlash] = 2


(***************************************************************************)
(* Claims about the worker threads, checked under SpecWorkers.             *)
(***************************************************************************)
\* the signals that tell the UI thread that the worker's run is over
CompletionSignals(w) ==
    CASE w = ADBThread -> {"command_finished"}
      [] w = CommandRunner -> {"finished"}
      [] w = PartitionLoadWorker -> {"finished_loading", "error_occurred"}
      [] w = DeviceInfoWorker -> {"info_ready"}
      [] OTHER -> {"finished_with_status"}

Completions(w) ==
    Cardinality({j \in 1..Len(wk[w].sigs) : wk[w].sigs[j].name \in CompletionSignals(w)})

\* C1: a worker's run() emits its completion signal exactly once on every
\* path on which run() returns (exit code 0, non-zero exit code, raised
\* exception): never more than one while it runs, and exactly one once it
\* has returned.  ADBThread: command_finished; CommandRunner: finished;
\* PartitionLoadWorker: one of finished_loading and error_occurred.
C1_ExactlyOneCompletion ==
    \A w \in {ADBThread, CommandRunner, PartitionLoadWorker} :
        /\ Completions(w) <= 1
        /\ wk[w].pc = "done" => Completions(w) = 1

\* the except branch of CommandRunner.run has run after one line was read
C1_Witness ==
    /\ wk[CommandRunner].pc = "done"
    /\ wk[CommandRunner].count = 1
    /\ wk[CommandRunner].sigs = <<[name |-> "finished", args |-> <<0>>]>>

\* C10: every subprocess a worker launches is bounded by a timeout: a worker
\* whose child process does not exit is released by the timeout of the call.
C10_EveryCallTimesOut ==
    \A w \in {ADBThread, PartitionPullWorker, DeviceInfoWorker} :
        wk[w].pc = "hung" => ENABLED WorkerRun(w)

\* the pull worker waits for an adb pull that does not exit, after its dd
C10_Witness ==
    /\ wk[PartitionPullWorker].pc = "hung"
    /\ ~ENABLED WorkerRun(PartitionPullWorker)


(***************************************************************************)
(* Claims about the partition manager, checked under SpecPM.               *)
(***************************************************************************)
\* C4: a step that starts a PartitionFlashWorker is a flash request made
\* with exactly one partition selected, answered Yes, with a non-empty image
\* path chosen; and the commands of a flash (push, dd) are only ever run by
\* a worker started that way.
C4_FlashOnlyWhenConfirmed ==
    [][/\ (wk'[PartitionFlashWorker] # wk[PartitionFlashWorker]
             /\ wk'[PartitionFlashWorker].pc = "push")
          => /\ Len(pm.selected_partitions) = 1
             /\ Len(pm'.answers) = 2
             /\ pm'.answers[1] = Yes
             /\ pm'.answers[2] # NoImage
             /\ wk'[PartitionFlashWorker].input = pm.selected_partitions
       /\ Len(wk'[PartitionFlashWorker].data) > Len(wk[PartitionFlashWorker].data)
          => wk[PartitionFlashWorker].pc \in {"push", "dd"}]_vars

\* a flash worker started while two partitions are loaded has pushed the
\* image and is about to run dd
C4_Witness ==
    /\ wk[PartitionFlashWorker].pc = "dd"
    /\ wk[PartitionFlashWorker].data = <<"push">>
    /\ Len(pm.partitions_data) = 2
    /\ pm.answers = <<Yes, "gsi.img">>

\* the partitions in selected_partitions, and the workers whose run() has
\* started and whose last signal the window has not handled yet
SelectedSet == {pm.selected_partitions[j] : j \in 1..Len(pm.selected_partitions)}
RunningWorkers == {w \in PmWorkers : wk[w].pc # "idle"}

\* C15: selected_partitions holds exactly the partitions whose rows are
\* checked, also after the table has been sorted.
C15_SelectionMatchesChecked == SelectedSet = pm.checked

\* the table sorted descending, the first row checked, and the partition
\* of the second row selected
C15_Witness ==
    /\ pm.descending
    /\ pm.rows = <<2, 1>>
    /\ pm.checked = {2}
    /\ pm.selected_partitions = <<1>>

\* C17: at most one of the load, pull and flash workers runs at any time,
\* the controls are disabled while one runs (from its start until the
\* handler of its completion or error signal has run), and they are enabled
\* whenever none runs.
C17_OneWorkerAtATime ==
    /\ Cardinality(RunningWorkers) <= 1
    /\ pm.open => (pm.controls <=> RunningWorkers = {})

\* a pull worker of two selected partitions is copying the second one
\* while the controls are disabled and no other worker runs
C17_Witness ==
    /\ wk[PartitionPullWorker].pc = "pull"
    /\ wk[PartitionPullWorker].i = 1
    /\ Len(wk[PartitionPullWorker].input) = 2
    /\ ~pm.controls
    /\ RunningWorkers = {PartitionPullWorker}


C8_FailureSurfaced ==
    (fe.exec_pc = "idle" /\ fe.exec_failed) => fe.exec_shown # "none"

\* C9: output is parsed only when the command succeeded: after a listing
\* whose command failed, the output was not parsed into rows and the error
\* box was shown; after a failed directory test no rm is run.
C9_ParsedOnlyOnSuccess ==
    /\ (fe.ls_pc = "idle" /\ fe.ls_failed) => (~fe.ls_parsed /\ fe.ls_box)
    /\ fe.test_failed => fe.del_pc # "rm"


(***************************************************************************)
(* Claims about the UI thread, checked under SpecUI.                       *)
(***************************************************************************)
\* C6: the UI thread never blocks: it is never inside a call that waits for
\* a worker thread or a subprocess.
C6_UiThreadNeverBlocks == ui.thread = "events"

\* the UI thread waits in closeEvent for a worker that is still running
C6_Witness ==
    /\ ui.thread = "AppManagerUI.closeEvent"
    /\ Tracked(ui) \cap ui.running # {}


(***************************************************************************)
(* Claims about the terminal window and the main window's version fields,  *)
(* checked under SpecTerm.                                                 *)
(***************************************************************************)
\* C11: no attribute of a window or reader object that the UI thread can
\* reach is assigned by a background thread.
C11_OnlyUiThreadWrites ==
    \A a \in SharedAttrs : term.writers[a] \subseteq {ThreadUi}

\* in_shell of one reader object has been assigned by the UI thread and by
\* the reader thread, and a version thread has assigned adb_version
C11_Witness ==
    /\ term.writers["in_shell"] = {ThreadUi, ThreadReader}
    /\ ThreadFetch \in term.writers["adb_version"]

Appliers == {"apply_theme", "check_and_apply_global_theme"}

\* the saved name names no theme: there is no file, or it holds neither
\* "none" nor the name of a file of the themes directory
NamesNoTheme(s) ==
    \/ s.config = Absent
    \/ Strip(s.config) # NoneName /\ Strip(s.config) \notin s.themes

\* C13: after apply_theme or check_and_apply_global_theme the saved name is
\* "none" or the name of an existing theme file, and if before the call
\* there was no saved-name file or it named no existing theme file, the
\* saved name is "dark.qss" and dark.qss is the style sheet applied.
C13_SavedNameValidAfterApply ==
    [][tm'.by \in Appliers =>
          /\ tm'.config = NoneName \/ tm'.config \in tm'.themes
          /\ NamesNoTheme(tm) => tm'.config = DarkQss /\ tm'.stylesheet = DarkQss]_vars

\* apply_theme has run on an empty saved-name file: it raised and the saved
\* name is still empty
C13_Witness ==
    /\ tm.by = "apply_theme"
    /\ tm.raised
    /\ tm.config = ""


(***************************************************************************)
(* Claims about the preview of the boot animation creator, checked under   *)
(* SpecPreview.                                                            *)
(***************************************************************************)
\* C14: when no extraction is in progress (every preview flow that was
\* started has finished), no temporary frame folder exists.
C14_FrameFoldersRemoved == prev.threads = <<>> => prev.dirs = {}

\* a video extraction has failed, the user was told, and the folder it made
\* is still there
C14_Witness ==
    /\ prev.threads = <<>>
    /\ prev.shown = "extraction failed"
    /\ prev.selected_anim_file = Video
    /\ prev.dirs = {1}

=============================================================================
